---- MODULE Spec2Model ----
(***************************************************************************)
(* Model of lrbison/divik: the two-stage feature selector                  *)
(* (HighAbundanceAndVarianceSelector), the characteristic/threshold        *)
(* conversion of StatSelectorMixin, the scoped seeding of the global       *)
(* random generator (seed, seeded) and the worker pool selection           *)
(* (get_n_jobs, DummyPool, maybe_pool).                                    *)
(*                                                                         *)
(* The four parts share no state.  Each has its own initial predicate and  *)
(* next-state relation; Spec is their union.                               *)
(***************************************************************************)
EXTENDS Integers, Sequences, FiniteSets

VARIABLES
    \* ---- HighAbundanceAndVarianceSelector (_specialized.py)
    hav_pc,               \* "idle" | "new" | "fitted" | "failed"
    n_features,           \* X.shape[1]
    min_features,         \* self.min_features
    min_features_rate,    \* self.min_features_rate, as a numerator over RateDen
    abundance_selector_,  \* [min_features, selected_] of the fitted 'mean' GMMSelector
    variance_selector_,   \* [min_features, selected_] of the fitted 'var' GMMSelector
    selected_,            \* self.selected_
    \* ---- StatSelectorMixin (_stat_selector_mixin.py)
    st_pc,                \* "idle" | "new" | "characteristics" | "raw"
    X,                    \* the matrix, a sequence of rows
    stat,                 \* self.stat
    use_log,              \* <<>> when the attribute is absent, else <<b>>
    preserve_high,        \* <<>> when the attribute is absent, else <<b>>
    stats,                \* the per-column statistic, before log and sign flip
    chars,                \* result of _to_characteristics: [raised, vals]
    raws,                 \* _to_raw of every entry of chars.vals
    \* ---- seed / seeded (core.py)
    rng,                  \* state of the global generator np.random
    sd_pc,                \* per caller: "idle" | "body" | "done" | "failed"
    state,                \* per caller: the local `state` saved by seed()
    kwargs,               \* per caller: the keyword arguments of the call
    wrapped_requires_seed,\* per caller: the decorator's parameter
    scope_seed,           \* per caller: _seed of _seeded
    inner_kwargs,         \* per caller: the kwargs func received
    draws,                \* per caller: the numbers func drew from np.random
    before,               \* history: the generator's state when the outermost
                          \* open scope was entered
    \* ---- get_n_jobs / DummyPool / maybe_pool (core.py)
    pl_pc,                \* "idle" | "new" | "pool" | "used"
    method,               \* the pool method called: "" | "map" | "starmap" | "apply"
    processes,            \* <<>> for None, else <<n>>
    cpu_count,            \* os.cpu_count(): <<>> for None, else <<n>>
    pool,                 \* what maybe_pool yields: [kind, size]
    iterable,             \* the items handed to the pool
    results,              \* what the pool call returned
    calls                 \* the arguments func was called with, in call order

havVars  == <<hav_pc, n_features, min_features, min_features_rate,
              abundance_selector_, variance_selector_, selected_>>
statVars == <<st_pc, X, stat, use_log, preserve_high, stats, chars, raws>>
seedVars == <<rng, sd_pc, state, kwargs, wrapped_requires_seed, scope_seed,
              inner_kwargs, draws, before>>
poolVars == <<pl_pc, method, processes, cpu_count, pool, iterable, results, calls>>
vars     == <<havVars, statVars, seedVars, poolVars>>

(***************************************************************************)
(* Bounds of the model                                                     *)
(***************************************************************************)
MaxFeatures == 4
MaxMinFeatures == 5
RateDen == 4
NCols == 2
RngModulus == 5
MaxSeed == 2
MaxDraws == 2
MaxJobs == 5
MaxCpu == 3
MaxLen == 2

(***************************************************************************)
(* Arithmetic helpers                                                      *)
(***************************************************************************)
Max(a, b) == IF a >= b THEN a ELSE b
Min(a, b) == IF a <= b THEN a ELSE b
CeilDiv(a, d) == (a + d - 1) \div d

RECURSIVE CountTrue(_)
CountTrue(m) ==
    IF m = <<>> THEN 0
    ELSE (IF Head(m) THEN 1 ELSE 0) + CountTrue(Tail(m))

Masks(w) == [1..w -> BOOLEAN]

(***************************************************************************)
(* Idle values of each part (the part is not in use)                       *)
(***************************************************************************)
NoSelector == [min_features |-> 0, selected_ |-> <<>>]

HavIdle ==
    /\ hav_pc = "idle" /\ n_features = 0 /\ min_features = 0
    /\ min_features_rate = 0 /\ abundance_selector_ = NoSelector
    /\ variance_selector_ = NoSelector /\ selected_ = <<>>

(***************************************************************************)
(* GMMSelector (divik._feature_selection._gmm_selector), by its contract:  *)
(* fit on a matrix of w >= 1 columns yields a mask of length w with at     *)
(* least min(ceil(min_features), w) entries True, any such mask; fit on    *)
(* zero columns fails.  min_features arrives scaled by RateDen.            *)
(***************************************************************************)
GMMSelectorFit(w, minf) ==
    {m \in Masks(w) : CountTrue(m) >= Min(CeilDiv(minf, RateDen), w)}

(***************************************************************************)
(* HighAbundanceAndVarianceSelector.fit                                    *)
(***************************************************************************)
\* min_features = max(self.min_features, self.min_features_rate * X.shape[1]),
\* scaled by RateDen so that the float stays an integer.
fit_min_features_no_rate(mf, rate, ncols) == mf * RateDen

fit_min_features(mf, rate, ncols) == Max(mf * RateDen, rate * ncols)

\* the min_features argument of the 'var' GMMSelector, fitted on `filtered`
variance_min_features_own_width(mf, rate, ncols, filtered_ncols) ==
    Max(mf * RateDen, rate * filtered_ncols)

variance_min_features(mf, rate, ncols, filtered_ncols) ==
    fit_min_features(mf, rate, ncols)

\* self.selected_[self.selected_] = values: the positions of `sel` that are
\* True take the entries of `values` in order, the others stay False.
RECURSIVE ScatterFrom(_, _, _)
ScatterFrom(sel, values, k) ==
    IF sel = <<>> THEN <<>>
    ELSE IF Head(sel)
         THEN <<values[k]>> \o ScatterFrom(Tail(sel), values, k + 1)
         ELSE <<FALSE>> \o ScatterFrom(Tail(sel), values, k)

scatter_by_position(sel, values) ==
    [i \in 1..Len(sel) |-> sel[i] /\ i <= Len(values) /\ values[i]]

scatter(sel, values) == ScatterFrom(sel, values, 1)

Fit ==
    /\ hav_pc = "new"
    /\ LET mf == fit_min_features(min_features, min_features_rate, n_features)
       IN  IF n_features = 0
           THEN \* GMMSelector.fit(X) fails on zero columns
                /\ hav_pc' = "failed"
                /\ UNCHANGED <<abundance_selector_, variance_selector_, selected_>>
           ELSE \E am \in GMMSelectorFit(n_features, mf) :
                  LET w  == CountTrue(am)
                      vf == variance_min_features(min_features,
                                min_features_rate, n_features, w)
                  IN  /\ abundance_selector_' =
                            [min_features |-> mf, selected_ |-> am]
                      /\ IF w = 0
                         THEN \* the 'var' selector fails on the empty matrix
                              /\ hav_pc' = "failed"
                              /\ selected_' = am
                              /\ UNCHANGED variance_selector_
                         ELSE \E vm \in GMMSelectorFit(w, vf) :
                                /\ variance_selector_' =
                                      [min_features |-> vf, selected_ |-> vm]
                                /\ selected_' = scatter(am, vm)
                                /\ hav_pc' = "fitted"
    /\ UNCHANGED <<n_features, min_features, min_features_rate>>
    /\ UNCHANGED <<statVars, seedVars, poolVars>>

(***************************************************************************)
(* StatSelectorMixin: numbers                                              *)
(*                                                                         *)
(* A value is <<"fin", v>> (the integer v), <<"-inf", 0>>, <<"+inf", 0>>,  *)
(* <<"nan", 0>> or <<"inv", d>> (the fraction 1/d).  In characteristic     *)
(* space under use_log a finite value counts in units of ln 2, so that     *)
(* np.log(2^k) is <<"fin", k>> and np.exp of it is 2^k again; the matrices *)
(* are drawn so that every positive statistic is a power of two.           *)
(***************************************************************************)
Fin(v) == <<"fin", v>>
NegInf == <<"-inf", 0>>
PosInf == <<"+inf", 0>>
NaN    == <<"nan", 0>>

RECURSIVE Log2(_)
Log2(v) == IF v <= 1 THEN 0 ELSE 1 + Log2(v \div 2)

RECURSIVE Pow2(_)
Pow2(k) == IF k <= 0 THEN 1 ELSE 2 * Pow2(k - 1)

\* unary minus on an array element
Neg(x) ==
    CASE x[1] = "fin"  -> Fin(-x[2])
      [] x[1] = "-inf" -> PosInf
      [] x[1] = "+inf" -> NegInf
      [] OTHER         -> x

\* np.log: log(0) is -inf (a warning, no error), log of a negative is nan
NpLog(x) ==
    CASE x[1] = "fin" /\ x[2] > 0 -> Fin(Log2(x[2]))
      [] x[1] = "fin" /\ x[2] = 0 -> NegInf
      [] x[1] = "fin" /\ x[2] < 0 -> NaN
      [] x[1] = "-inf"            -> NaN
      [] OTHER                    -> x

\* np.exp
NpExp(x) ==
    CASE x[1] = "fin" /\ x[2] >= 0 -> Fin(Pow2(x[2]))
      [] x[1] = "fin" /\ x[2] < 0  -> <<"inv", Pow2(-x[2])>>
      [] x[1] = "-inf"             -> Fin(0)
      [] OTHER                     -> x

RECURSIVE Sum(_)
Sum(s) == IF s = <<>> THEN 0 ELSE Head(s) + Sum(Tail(s))

Column(M, j) == [i \in 1..Len(M) |-> M[i][j]]

\* np.mean(X, axis=0)[j]; the division is exact on the matrices drawn
NpMean(col) == Sum(col) \div Len(col)

\* np.var(X, axis=0)[j] = sum((n*x - S)^2) / n^3, exact on the matrices drawn
NpVar(col) ==
    LET n == Len(col)
        S == Sum(col)
    IN  Sum([i \in 1..n |-> (n * col[i] - S) * (n * col[i] - S)]) \div (n * n * n)

\* hasattr(self, a) and self.a
AttrTrue(a) == a # <<>> /\ a[1]
\* hasattr(self, a) and not self.a
AttrFalse(a) == a # <<>> /\ ~a[1]

(***************************************************************************)
(* StatSelectorMixin._to_characteristics and _to_raw                       *)
(***************************************************************************)
ColumnStats(M, st) ==
    [j \in 1..Len(M[1]) |->
        IF st = "mean" THEN NpMean(Column(M, j)) ELSE NpVar(Column(M, j))]

_to_characteristics(M, st, ulog, phigh) ==
    IF st \notin {"mean", "var"}
    THEN [raised |-> TRUE, vals |-> <<>>]
    ELSE LET v0 == ColumnStats(M, st)
         IN  IF AttrTrue(ulog) /\ \E j \in 1..Len(v0) : v0[j] < 0
             THEN [raised |-> TRUE, vals |-> <<>>]
             ELSE LET v1 == [j \in 1..Len(v0) |->
                               IF AttrTrue(ulog) THEN NpLog(Fin(v0[j]))
                                                 ELSE Fin(v0[j])]
                      v2 == [j \in 1..Len(v0) |->
                               IF AttrFalse(phigh) THEN Neg(v1[j]) ELSE v1[j]]
                  IN  [raised |-> FALSE, vals |-> v2]

_to_raw_no_flip(threshold, ulog, phigh) ==
    IF AttrTrue(ulog) THEN NpExp(threshold) ELSE threshold

_to_raw(threshold, ulog, phigh) ==
    LET t1 == IF AttrFalse(phigh) THEN Neg(threshold) ELSE threshold
    IN  IF AttrTrue(ulog) THEN NpExp(t1) ELSE t1

RowIndex == {1, 2}
Entries == {-2, 0, 2}
Matrices == UNION {[RowIndex -> [1..c -> Entries]] : c \in 1..NCols}
Attr == {<<>>, <<TRUE>>, <<FALSE>>}

StatIdle ==
    /\ st_pc = "idle" /\ X = <<>> /\ stat = "" /\ use_log = <<>>
    /\ preserve_high = <<>> /\ stats = <<>>
    /\ chars = [raised |-> FALSE, vals |-> <<>>] /\ raws = <<>>

ToCharacteristics ==
    /\ st_pc = "new"
    /\ stats' = (IF stat \in {"mean", "var"} THEN ColumnStats(X, stat) ELSE <<>>)
    /\ chars' = _to_characteristics(X, stat, use_log, preserve_high)
    /\ st_pc' = "characteristics"
    /\ UNCHANGED <<X, stat, use_log, preserve_high, raws>>
    /\ UNCHANGED <<havVars, seedVars, poolVars>>

ToRaw ==
    /\ st_pc = "characteristics"
    /\ ~chars.raised
    /\ raws' = [j \in 1..Len(chars.vals) |->
                   _to_raw(chars.vals[j], use_log, preserve_high)]
    /\ st_pc' = "raw"
    /\ UNCHANGED <<X, stat, use_log, preserve_high, stats, chars>>
    /\ UNCHANGED <<havVars, seedVars, poolVars>>

(***************************************************************************)
(* seed and seeded                                                         *)
(*                                                                         *)
(* The global generator is a counter modulo RngModulus: np.random.seed(s)  *)
(* sets it from s alone, a draw returns the state and advances it.         *)
(* A dict is a set of <<key, value>> pairs.                                *)
(***************************************************************************)
Callers == {1, 2}
RngStates == 0..(RngModulus - 1)
Seeds == 0..MaxSeed

NpRandomSeed(s) == s % RngModulus
NpRandomAdvance(r) == (r + 1) % RngModulus

HasKey(d, k) == \E p \in d : p[1] = k
DictGet(d, k, default) ==
    IF HasKey(d, k) THEN (CHOOSE p \in d : p[1] = k)[2] ELSE default
DictWithout(d, k) == {p \in d : p[1] # k}

KwargsSet == {{}} \cup {{<<"seed", s>>} : s \in Seeds}

\* _seed = get(kwargs, 'seed', 0), get being dict.get or dict.pop
seeded_seed(kw) == DictGet(kw, "seed", 0)

\* kwargs as func receives them: dict.pop has removed 'seed', dict.get has not
seeded_inner_kwargs(kw, requires_seed) ==
    IF requires_seed THEN kw ELSE DictWithout(kw, "seed")

NoScopeActive == \A c \in Callers : sd_pc[c] # "body"

SeedIdle ==
    /\ rng = 0
    /\ sd_pc = [c \in Callers |-> "unused"]
    /\ state = [c \in Callers |-> 0]
    /\ kwargs = [c \in Callers |-> {}]
    /\ wrapped_requires_seed = [c \in Callers |-> FALSE]
    /\ scope_seed = [c \in Callers |-> 0]
    /\ inner_kwargs = [c \in Callers |-> {}]
    /\ draws = [c \in Callers |-> <<>>]
    /\ before = 0

\* _seeded up to the call of func: the seed is taken from kwargs, seed() saves
\* the generator's state and seeds it, func starts with the kwargs left.
Enter(c) ==
    /\ sd_pc[c] = "idle"
    /\ scope_seed' = [scope_seed EXCEPT ![c] = seeded_seed(kwargs[c])]
    /\ inner_kwargs' = [inner_kwargs EXCEPT
           ![c] = seeded_inner_kwargs(kwargs[c], wrapped_requires_seed[c])]
    /\ state' = [state EXCEPT ![c] = rng]
    /\ rng' = NpRandomSeed(seeded_seed(kwargs[c]))
    /\ sd_pc' = [sd_pc EXCEPT ![c] = "body"]
    /\ before' = (IF NoScopeActive THEN rng ELSE before)
    /\ UNCHANGED <<kwargs, wrapped_requires_seed, draws>>
    /\ UNCHANGED <<havVars, statVars, poolVars>>

\* the same call made while no other scope is open
SeqEnter(c) == NoScopeActive /\ Enter(c)

\* func draws one number from np.random
BodyDraw(c) ==
    /\ sd_pc[c] = "body"
    /\ Len(draws[c]) < MaxDraws
    /\ draws' = [draws EXCEPT ![c] = Append(@, rng)]
    /\ rng' = NpRandomAdvance(rng)
    /\ UNCHANGED <<sd_pc, state, kwargs, wrapped_requires_seed, scope_seed,
                   inner_kwargs, before>>
    /\ UNCHANGED <<havVars, statVars, poolVars>>

\* func returns: the generator resumes after its yield, np.random.set_state(state)
seed_exit(saved, current) == saved

BodyReturn(c) ==
    /\ sd_pc[c] = "body"
    /\ rng' = seed_exit(state[c], rng)
    /\ sd_pc' = [sd_pc EXCEPT ![c] = "done"]
    /\ UNCHANGED <<state, kwargs, wrapped_requires_seed, scope_seed,
                   inner_kwargs, draws, before>>
    /\ UNCHANGED <<havVars, statVars, poolVars>>

\* func raises: the exception is raised at the yield of seed(), which has no
\* try/finally, so the line after the yield does not run
BodyRaise(c) ==
    /\ sd_pc[c] = "body"
    /\ sd_pc' = [sd_pc EXCEPT ![c] = "failed"]
    /\ UNCHANGED <<rng, state, kwargs, wrapped_requires_seed, scope_seed,
                   inner_kwargs, draws, before>>
    /\ UNCHANGED <<havVars, statVars, poolVars>>

\* the caller itself draws from the global generator, outside every scope
CallerDraw ==
    /\ \A c \in Callers : sd_pc[c] # "unused"
    /\ NoScopeActive
    /\ rng' = NpRandomAdvance(rng)
    /\ UNCHANGED <<sd_pc, state, kwargs, wrapped_requires_seed, scope_seed,
                   inner_kwargs, draws, before>>
    /\ UNCHANGED <<havVars, statVars, poolVars>>

(***************************************************************************)
(* get_n_jobs, DummyPool, maybe_pool                                       *)
(***************************************************************************)
\* x or default, for an optional integer x
OrElse(x, default) == IF x = <<>> \/ x[1] = 0 THEN default ELSE x[1]

get_n_jobs(n_jobs, cpus) ==
    LET n_cpu == OrElse(cpus, 1)
        n0 == IF n_jobs = <<>> THEN 1 ELSE n_jobs[1]
        n1 == IF n0 <= 0 THEN Min(n0 + 1 + n_cpu, n_cpu) ELSE n0
    IN  OrElse(<<n1>>, n_cpu)

\* multiprocessing.Pool(n) raises ValueError for n < 1
maybe_pool(procs, cpus) ==
    LET n_jobs == get_n_jobs(procs, cpus)
    IN  IF n_jobs = 1 \/ n_jobs = 0
        THEN [kind |-> "DummyPool", size |-> n_jobs]
        ELSE IF n_jobs < 1
             THEN [kind |-> "ValueError", size |-> n_jobs]
             ELSE [kind |-> "Pool", size |-> n_jobs]

\* The functions handed to the pool.  Each call is logged in `calls`.
Func1(x) == 2 * x + 1
Func2(a, b) == 3 * a - b
FuncKw(a, b, kwds) == 3 * a - b + 10 * DictGet(kwds, "k", 0)

\* the comprehension run from the last item to the first
RECURSIVE DummyPoolMapReversed(_, _)
DummyPoolMapReversed(xs, log) ==
    IF xs = <<>> THEN [out |-> <<>>, log |-> log]
    ELSE LET r == DummyPoolMapReversed(Tail(xs), log)
         IN  [out |-> <<Func1(Head(xs))>> \o r.out,
              log |-> Append(r.log, Head(xs))]

\* [func(v) for v in iterable]: [out, log]
RECURSIVE DummyPoolMap(_, _)
DummyPoolMap(xs, log) ==
    IF xs = <<>> THEN [out |-> <<>>, log |-> log]
    ELSE LET y == Func1(Head(xs))
             r == DummyPoolMap(Tail(xs), Append(log, Head(xs)))
         IN  [out |-> <<y>> \o r.out, log |-> r.log]

\* [func(*v) for v in iterable]
RECURSIVE DummyPoolStarmap(_, _)
DummyPoolStarmap(xs, log) ==
    IF xs = <<>> THEN [out |-> <<>>, log |-> log]
    ELSE LET y == Func2(Head(xs)[1], Head(xs)[2])
             r == DummyPoolStarmap(Tail(xs), Append(log, Head(xs)))
         IN  [out |-> <<y>> \o r.out, log |-> r.log]

\* func(*args, **kwds)
DummyPoolApply(args, kwds, log) ==
    [out |-> FuncKw(args[1], args[2], kwds), log |-> Append(log, <<args, kwds>>)]

Items == 0..2
Pairs == Items \X Items
SeqsUpTo(S, n) == UNION {[1..k -> S] : k \in 0..n}
Optional(S) == {<<>>} \cup {<<n>> : n \in S}

PoolIdle ==
    /\ pl_pc = "idle" /\ method = "" /\ processes = <<>> /\ cpu_count = <<>>
    /\ pool = [kind |-> "", size |-> 0] /\ iterable = <<>>
    /\ results = <<>> /\ calls = <<>>

MaybePool ==
    /\ pl_pc = "new"
    /\ pool' = maybe_pool(processes, cpu_count)
    /\ pl_pc' = "pool"
    /\ UNCHANGED <<method, processes, cpu_count, iterable, results, calls>>
    /\ UNCHANGED <<havVars, statVars, seedVars>>

Map ==
    /\ pl_pc = "pool" /\ pool.kind = "DummyPool"
    /\ \E xs \in SeqsUpTo(Items, MaxLen) :
         LET r == DummyPoolMap(xs, <<>>)
         IN  /\ iterable' = xs
             /\ results' = r.out
             /\ calls' = r.log
    /\ method' = "map"
    /\ pl_pc' = "used"
    /\ UNCHANGED <<processes, cpu_count, pool>>
    /\ UNCHANGED <<havVars, statVars, seedVars>>

Starmap ==
    /\ pl_pc = "pool" /\ pool.kind = "DummyPool"
    /\ \E xs \in SeqsUpTo(Pairs, MaxLen) :
         LET r == DummyPoolStarmap(xs, <<>>)
         IN  /\ iterable' = xs
             /\ results' = r.out
             /\ calls' = r.log
    /\ method' = "starmap"
    /\ pl_pc' = "used"
    /\ UNCHANGED <<processes, cpu_count, pool>>
    /\ UNCHANGED <<havVars, statVars, seedVars>>

Apply ==
    /\ pl_pc = "pool" /\ pool.kind = "DummyPool"
    /\ \E args \in Pairs, kwds \in {{}} \cup {{<<"k", v>>} : v \in Items} :
         LET r == DummyPoolApply(args, kwds, <<>>)
         IN  /\ iterable' = <<args, kwds>>
             /\ results' = <<r.out>>
             /\ calls' = r.log
    /\ method' = "apply"
    /\ pl_pc' = "used"
    /\ UNCHANGED <<processes, cpu_count, pool>>
    /\ UNCHANGED <<havVars, statVars, seedVars>>

(***************************************************************************)
(* Specifications                                                          *)
(***************************************************************************)
HavNew ==
    /\ hav_pc = "new"
    /\ n_features \in 0..MaxFeatures
    /\ min_features \in 0..MaxMinFeatures
    /\ min_features_rate \in 0..RateDen
    /\ abundance_selector_ = NoSelector
    /\ variance_selector_ = NoSelector
    /\ selected_ = <<>>

StatNew ==
    /\ st_pc = "new"
    /\ X \in Matrices
    /\ stat \in {"mean", "var", "median"}
    /\ use_log \in Attr
    /\ preserve_high \in Attr
    /\ stats = <<>>
    /\ chars = [raised |-> FALSE, vals |-> <<>>]
    /\ raws = <<>>

SeedNew ==
    /\ rng \in RngStates
    /\ sd_pc = [c \in Callers |-> "idle"]
    /\ state = [c \in Callers |-> 0]
    /\ kwargs \in [Callers -> KwargsSet]
    /\ wrapped_requires_seed \in [Callers -> BOOLEAN]
    /\ scope_seed = [c \in Callers |-> 0]
    /\ inner_kwargs = [c \in Callers |-> {}]
    /\ draws = [c \in Callers |-> <<>>]
    /\ before = rng

PoolNew ==
    /\ pl_pc = "new" /\ method = ""
    /\ processes \in Optional((-MaxJobs)..MaxJobs)
    /\ cpu_count \in Optional(1..MaxCpu)
    /\ pool = [kind |-> "", size |-> 0] /\ iterable = <<>>
    /\ results = <<>> /\ calls = <<>>

InitSelector == HavNew /\ StatIdle /\ SeedIdle /\ PoolIdle
InitStat     == HavIdle /\ StatNew /\ SeedIdle /\ PoolIdle
InitSeed     == HavIdle /\ StatIdle /\ SeedNew /\ PoolIdle
InitPool     == HavIdle /\ StatIdle /\ SeedIdle /\ PoolNew

NextSelector == Fit
NextStat     == ToCharacteristics \/ ToRaw
NextSeedSeq  ==
    \/ \E c \in Callers : SeqEnter(c)
    \/ \E c \in Callers : BodyDraw(c)
    \/ \E c \in Callers : BodyReturn(c)
    \/ \E c \in Callers : BodyRaise(c)
    \/ CallerDraw
NextSeedConc ==
    \/ \E c \in Callers : Enter(c)
    \/ \E c \in Callers : BodyDraw(c)
    \/ \E c \in Callers : BodyReturn(c)
    \/ \E c \in Callers : BodyRaise(c)
    \/ CallerDraw
NextPool     == MaybePool \/ Map \/ Starmap \/ Apply

SpecSelector == InitSelector /\ [][NextSelector]_vars
SpecStat     == InitStat /\ [][NextStat]_vars
SpecSeedSeq  == InitSeed /\ [][NextSeedSeq]_vars
SpecSeedConc == InitSeed /\ [][NextSeedConc]_vars
SpecPool     == InitPool /\ [][NextPool]_vars

Init == InitSelector \/ InitStat \/ InitSeed \/ InitPool
Next == NextSelector \/ NextStat \/ NextSeedConc \/ NextPool
Spec == Init /\ [][Next]_vars

(***************************************************************************)
(* Properties                                                              *)
(***************************************************************************)
\* max(min_features, ceil(min_features_rate * n_features))
MinFeaturesBound ==
    Max(min_features, CeilDiv(min_features_rate * n_features, RateDen))

\* the number of True entries among the first i of mask m
Rank(m, i) == Cardinality({k \in 1..i : m[k]})

\* C1: after fit, selected_ has one entry per column of X and at least
\* max(min_features, ceil(min_features_rate * n_features)) of them are True;
\* when that bound exceeds n_features every feature is retained.
C1_MinimumFeatures ==
    hav_pc = "fitted" =>
        /\ Len(selected_) = n_features
        /\ CountTrue(selected_) >= Min(MinFeaturesBound, n_features)
        /\ (MinFeaturesBound > n_features =>
                \A i \in 1..n_features : selected_[i])

\* the rate decides the bound, both stages dropped columns, and the result
\* sits exactly on the bound
C1_Witness ==
    /\ hav_pc = "fitted"
    /\ min_features_rate * n_features > min_features * RateDen
    /\ MinFeaturesBound < n_features
    /\ CountTrue(abundance_selector_.selected_) < n_features
    /\ CountTrue(abundance_selector_.selected_) > MinFeaturesBound
    /\ CountTrue(selected_) = MinFeaturesBound

\* C2: after fit, selected_[i] is True exactly when the abundance mask is True
\* at i and the variance mask is True at the index i has among the columns the
\* abundance stage kept; the variance mask has one entry per kept column.
C2_Combine ==
    hav_pc = "fitted" =>
        LET ab == abundance_selector_.selected_
            va == variance_selector_.selected_
        IN  /\ Len(va) = CountTrue(ab)
            /\ Len(selected_) = Len(ab)
            /\ \A i \in 1..Len(ab) :
                   selected_[i] <=> (ab[i] /\ va[Rank(ab, i)])

\* a column dropped by the abundance stage comes before a column both stages
\* kept, and the variance stage dropped a column too
C2_Witness ==
    /\ hav_pc = "fitted"
    /\ LET ab == abundance_selector_.selected_
       IN  /\ \E i \in 1..Len(ab) :
                 ab[i] /\ selected_[i] /\ Rank(ab, i) < i
           /\ \E j \in 1..Len(ab) : ab[j] /\ ~selected_[j]

\* C8 (as stated): the abundance stage is given
\* max(min_features, min_features_rate * columns of X) and the variance stage
\* max(min_features, min_features_rate * columns of the filtered matrix).
C8_OwnWidth ==
    hav_pc = "fitted" =>
        /\ abundance_selector_.min_features =
              Max(min_features * RateDen, min_features_rate * n_features)
        /\ variance_selector_.min_features =
              Max(min_features * RateDen,
                  min_features_rate * Len(variance_selector_.selected_))

\* C8 (amended): both stages are given the same value,
\* max(min_features, min_features_rate * columns of X).
C8_SameMinimum ==
    hav_pc = "fitted" =>
        /\ abundance_selector_.min_features =
              Max(min_features * RateDen, min_features_rate * n_features)
        /\ variance_selector_.min_features =
              Max(min_features * RateDen, min_features_rate * n_features)

\* the filtered matrix is narrower than X and the rate decides the minimum
C8_Witness ==
    /\ hav_pc = "fitted"
    /\ Len(variance_selector_.selected_) < n_features
    /\ min_features_rate * Len(variance_selector_.selected_)
           > min_features * RateDen

\* C7: with use_log, _to_characteristics raises whenever a column statistic is
\* negative or zero, and returns a vector only when every statistic is > 0.
C7_NonPositiveRaises ==
    (st_pc \in {"characteristics", "raw"} /\ AttrTrue(use_log)
        /\ stat \in {"mean", "var"}) =>
        (chars.raised <=> \E j \in 1..Len(stats) : stats[j] <= 0)

\* C9: for every setting of use_log and preserve_high, _to_raw of the
\* characteristic of a column gives back the column's statistic.
C9_RoundTrip ==
    st_pc = "raw" => \A j \in 1..Len(stats) : raws[j] = Fin(stats[j])

\* log and sign flip both apply, to a statistic whose log is not zero
C9_Witness ==
    /\ st_pc = "raw"
    /\ AttrTrue(use_log) /\ AttrFalse(preserve_high)
    /\ \E j \in 1..Len(stats) : stats[j] > 1

\* C3: whenever a scope ends, by return or by an exception of the body, the
\* generator is back in the state saved when the scope was entered.
C3_RestoredOnEveryExit ==
    [][\A c \in Callers :
          (sd_pc[c] = "body" /\ sd_pc'[c] \in {"done", "failed"})
              => rng' = state[c]]_vars

\* C4: when the last open scope returns and both callers have returned, the
\* generator is in the state it had when the outermost scope was entered.
C4_NoLeakWhenConcurrent ==
    [][(~NoScopeActive /\ NoScopeActive'
            /\ \A c \in Callers : sd_pc'[c] = "done")
          => rng' = before]_vars

\* C5: two calls with the same seed draw the same numbers; the scope is seeded
\* with the caller's seed, 0 when there is none; and with
\* wrapped_requires_seed func receives that seed.
C5_ReproducibleAndSeedPassed ==
    /\ \A c, d \in Callers :
          (sd_pc[c] = "done" /\ sd_pc[d] = "done"
              /\ scope_seed[c] = scope_seed[d]
              /\ Len(draws[c]) = Len(draws[d]))
          => draws[c] = draws[d]
    /\ \A c \in Callers :
          sd_pc[c] \in {"body", "done", "failed"} =>
              /\ scope_seed[c] = DictGet(kwargs[c], "seed", 0)
              /\ (wrapped_requires_seed[c] =>
                     <<"seed", scope_seed[c]>> \in inner_kwargs[c])

\* C6: a request for one worker yields the DummyPool; map and starmap return
\* func of every item in input order, apply returns func(*args, **kwds); func
\* is called once per item, in item order.
C6_DummyPoolSequential ==
    /\ (pl_pc \in {"pool", "used"} /\ pool.size = 1) => pool.kind = "DummyPool"
    /\ method = "map" =>
          /\ results = [i \in 1..Len(iterable) |-> Func1(iterable[i])]
          /\ calls = iterable
    /\ method = "starmap" =>
          /\ results = [i \in 1..Len(iterable) |->
                           Func2(iterable[i][1], iterable[i][2])]
          /\ calls = iterable
    /\ method = "apply" =>
          /\ results = <<FuncKw(iterable[1][1], iterable[1][2], iterable[2])>>
          /\ calls = <<iterable>>

\* a one-worker pool has mapped two different items
C6_Witness ==
    /\ pl_pc = "used" /\ method = "map"
    /\ pool.kind = "DummyPool" /\ pool.size = 1
    /\ Len(iterable) = 2 /\ iterable[1] # iterable[2]

\* C10: get_n_jobs returns at least 1, so no Pool is built with a size below
\* 1; for a request <= 0 the result is also at most the number of CPUs.
C10_AtLeastOneJob ==
    pl_pc \in {"pool", "used"} =>
        /\ pool.size >= 1
        /\ pool.kind # "ValueError"
        /\ (processes # <<>> /\ processes[1] <= 0) =>
               pool.size <= OrElse(cpu_count, 1)

====
